---- MODULE Spec2Model ----
(***************************************************************************)
(* A model of dictwrapper.nested: NestedMapping (a tree of dictionaries    *)
(* with flat key access from the root) and NestedIterator (its depth-first *)
(* leaf iterator).                                                          *)
(*                                                                          *)
(* A dictionary is a sequence of entries in insertion order, with distinct *)
(* keys.  An entry is a record [k, kind, v, d]:                             *)
(*   kind = "leaf" : a scalar payload v                        (d = <<>>)   *)
(*   kind = "dict" : a plain Python dict with entries d        (v = 0)      *)
(*   kind = "nm"   : a NestedMapping whose data is d           (v = 0)      *)
(* A reference to a node of the tree is the sequence of branch keys that   *)
(* leads to it from the root (<<>> is the root).                            *)
(***************************************************************************)
EXTENDS Integers, Sequences, FiniteSets, TLC

VARIABLES
    pc,          \* "load": the input is being read; "built": the root exists; "failed": __init__ raised
    inp,         \* the plain hierarchical value read so far / handed to the constructor
    cursor,      \* while loading: the path of the dict of inp that is being read
    flags,       \* the constructor's keyword arguments [recursive, check]
    data,        \* the root NestedMapping's data
    it,          \* "none": no iterator exists; "open": a NestedIterator on the root exists
    iter_stack,  \* NestedIterator.iter_stack: frames [path, pos], innermost last
    produced,    \* the keys the iterator has returned so far
    last,        \* the last call made on the root or on the iterator, and its outcome
    prev,        \* the root's data before the last call
    nops         \* number of mutating calls made so far

vars == <<pc, inp, cursor, flags, data, it, iter_stack, produced, last, prev, nops>>

-----------------------------------------------------------------------------
(* Bounds of the model *)

\* entries of the input in all, over all its levels
MaxEntries == 4
\* levels of dicts nested under the input's top level
MaxDepth == 2
\* mutating calls (set, delete) in one run
MaxOps == 1

KeyOrder == <<"a", "b", "c", "d">>
Keys == {KeyOrder[i] : i \in DOMAIN KeyOrder}
Vals == {1, 2}

-----------------------------------------------------------------------------
(* Values and plain dicts *)

Leaf(v) == [kind |-> "leaf", v |-> v, d |-> <<>>]
Dict(d) == [kind |-> "dict", v |-> 0, d |-> d]
NM(d) == [kind |-> "nm", v |-> 0, d |-> d]
Entry(k, val) == [k |-> k, kind |-> val.kind, v |-> val.v, d |-> val.d]
ValueOf(e) == [kind |-> e.kind, v |-> e.v, d |-> e.d]
NoValue == [kind |-> "none", v |-> 0, d |-> <<>>]
NoKey == "-"

KeysOf(d) == {d[i].k : i \in DOMAIN d}
IndexOf(d, k) == CHOOSE i \in DOMAIN d : d[i].k = k
Lookup(d, k) == ValueOf(d[IndexOf(d, k)])

\* dict.__setitem__: an existing key keeps its position, a new key goes last
DictSet(d, k, val) ==
    IF k \in KeysOf(d)
    THEN [i \in DOMAIN d |-> IF d[i].k = k THEN Entry(k, val) ELSE d[i]]
    ELSE Append(d, Entry(k, val))

\* dict.__delitem__ of a key that is present
DictDel(d, k) == SelectSeq(d, LAMBDA e : e.k # k)

\* the dict a path of keys leads to
RECURSIVE NodeAt(_, _)
NodeAt(d, path) ==
    IF path = <<>> THEN d ELSE NodeAt(d[IndexOf(d, Head(path))].d, Tail(path))

\* d with the dict at path replaced by nd
RECURSIVE WithNodeAt(_, _, _)
WithNodeAt(d, path, nd) ==
    IF path = <<>> THEN nd
    ELSE [i \in DOMAIN d |->
            IF d[i].k = Head(path)
            THEN [d[i] EXCEPT !.d = WithNodeAt(d[i].d, Tail(path), nd)]
            ELSE d[i]]

RECURSIVE TotalEntries(_)
TotalEntries(d) ==
    IF d = <<>> THEN 0
    ELSE 1 + TotalEntries(Head(d).d) + TotalEntries(Tail(d))

\* Python's dict == : same keys, equal values, whatever the order
RECURSIVE DictEq(_, _)
DictEq(x, y) ==
    /\ KeysOf(x) = KeysOf(y)
    /\ \A i \in DOMAIN x :
          LET a == x[i]
              b == y[IndexOf(y, a.k)]
          IN /\ a.kind = b.kind
             /\ a.v = b.v
             /\ DictEq(a.d, b.d)

-----------------------------------------------------------------------------
(* NestedMapping *)

\* class MultipleKeyError(KeyError): an `except KeyError` clause catches both
IsKeyError(exc) == exc \in {"KeyError", "MultipleKeyError"}

\* get_children: the entries whose value is a NestedMapping, in dict order
get_children(d) == SelectSeq(d, LAMBDA e : e.kind = "nm")

\* get_leaves: the entries whose value is not a NestedMapping, in dict order
get_leaves(d) == SelectSeq(d, LAMBDA e : e.kind # "nm")

\* find_data_ returns [exc, path]: the exception raised ("none" when it
\* returns) and the path of the node whose data it returns.
\* find_branches is its loop over the branches from the i-th on;
\* st = [found, result, exc] are the locals and the exception in flight.
RECURSIVE find_data_(_, _), find_branches(_, _, _, _)
find_branches(branches, key, i, st) ==
    IF i > Len(branches) \/ st.exc # "none" THEN st
    ELSE LET sub == find_data_(branches[i].d, key)
             here == <<branches[i].k>> \o sub.path
             \* the try body: result = branch.find_data_(key), then the test of found
             body == IF sub.exc # "none"
                     THEN [st EXCEPT !.exc = sub.exc]
                     ELSE IF st.found
                          THEN [found |-> TRUE, result |-> here, exc |-> "MultipleKeyError"]
                          ELSE [found |-> TRUE, result |-> here, exc |-> "none"]
             \* except KeyError: pass
             after == IF IsKeyError(body.exc) THEN [body EXCEPT !.exc = "none"] ELSE body
         IN find_branches(branches, key, i + 1, after)

find_data_(d, key) ==
    LET st0 == [found |-> key \in KeysOf(d), result |-> <<>>, exc |-> "none"]
        st == find_branches(get_children(d), key, 1, st0)
    IN IF st.exc # "none" THEN [exc |-> st.exc, path |-> <<>>]
       ELSE IF st.found THEN [exc |-> "none", path |-> st.result]
       ELSE [exc |-> "KeyError", path |-> <<>>]

\* variant of __getitem__ that reads the root's own entries only
getitem_top(d, item) ==
    IF item \in KeysOf(d) THEN [exc |-> "none", val |-> Lookup(d, item)]
    ELSE [exc |-> "KeyError", val |-> NoValue]

\* __getitem__ returns [exc, val]
__getitem__(d, item) ==
    LET r == find_data_(d, item)
    IN IF r.exc # "none" THEN [exc |-> r.exc, val |-> NoValue]
       ELSE IF item \in KeysOf(NodeAt(d, r.path))
            THEN [exc |-> "none", val |-> Lookup(NodeAt(d, r.path), item)]
            ELSE [exc |-> "KeyError", val |-> NoValue]

\* variant of __setitem__ whose except clause drops the new key
setitem_noinsert(d, key, value) ==
    LET r == find_data_(d, key)
    IN IF r.exc = "none"
       THEN [exc |-> "none",
             data |-> WithNodeAt(d, r.path, DictSet(NodeAt(d, r.path), key, value))]
       ELSE [exc |-> "none", data |-> d]

\* variant of __setitem__ that writes into the root's own entries as well
\* as into the owner's
setitem_both(d, key, value) ==
    LET r == find_data_(d, key)
        edited == IF r.exc = "none"
                  THEN WithNodeAt(d, r.path, DictSet(NodeAt(d, r.path), key, value))
                  ELSE d
    IN [exc |-> "none", data |-> DictSet(edited, key, value)]

\* variant of __setitem__ that always writes into the root's own entries
setitem_root(d, key, value) == [exc |-> "none", data |-> DictSet(d, key, value)]

\* __setitem__ returns [exc, data]: the root's data after the call
__setitem__(d, key, value) ==
    LET r == find_data_(d, key)
    IN IF r.exc = "none"
       THEN [exc |-> "none",
             data |-> WithNodeAt(d, r.path, DictSet(NodeAt(d, r.path), key, value))]
       ELSE IF IsKeyError(r.exc)
            THEN [exc |-> "none", data |-> DictSet(d, key, value)]
            ELSE [exc |-> r.exc, data |-> d]

\* __delitem__ returns [exc, data]
__delitem__(d, key) ==
    LET r == find_data_(d, key)
    IN IF r.exc # "none" THEN [exc |-> r.exc, data |-> d]
       ELSE IF key \in KeysOf(NodeAt(d, r.path))
            THEN [exc |-> "none",
                  data |-> WithNodeAt(d, r.path, DictDel(NodeAt(d, r.path), key))]
            ELSE [exc |-> "KeyError", data |-> d]

RECURSIVE __len__(_), SumLen(_)
SumLen(children) ==
    IF children = <<>> THEN 0 ELSE __len__(Head(children).d) + SumLen(Tail(children))

\* variant of __len__ that does not take the branch keys off the count
len_nosub(d) == Len(d) + SumLen(get_children(d))

\* __len__
__len__(d) ==
    LET current_len == Len(d)
        children == get_children(d)
    IN IF Len(children) = 0 THEN current_len
       ELSE (current_len - Len(children)) + SumLen(children)

\* to_dict: the leaves first, then each child converted, as a plain dict
RECURSIVE to_dict(_), ChildDicts(_)
ChildDicts(children) ==
    IF children = <<>> THEN <<>>
    ELSE <<Entry(Head(children).k, Dict(to_dict(Head(children).d)))>>
             \o ChildDicts(Tail(children))

to_dict(d) == get_leaves(d) \o ChildDicts(get_children(d))

-----------------------------------------------------------------------------
(* NestedIterator *)

\* a frame of iter_stack is a dict iterator: the node whose data it runs
\* over and the number of keys it has handed out
Frame(path) == [path |-> path, pos |-> 0]

\* NestedIterator.__init__: iter_stack = [iter(mapping.data)]
NewStack == <<Frame(<<>>)>>

Pop(stack) == SubSeq(stack, 1, Len(stack) - 1)

\* __next__ on the iterator over the root whose data is d, with iter_stack =
\* stack.  Returns [stack, exc, key]: the stack afterwards, the exception
\* raised ("none" when a key is returned) and the key returned.
RECURSIVE __next__(_, _)

\* the except clause, reached by a StopIteration that the recursive call
\* inside the try block raised: pop(-1), then __next__ again
next_handler(d, inner) ==
    IF inner.exc # "StopIteration" THEN inner
    ELSE IF Len(inner.stack) = 0
         THEN [stack |-> inner.stack, exc |-> "IndexError", key |-> NoKey]
         ELSE __next__(d, Pop(inner.stack))

\* variant of the try block that returns every key, a branch's too, and
\* never descends
next_value_flat(d, stack, next_key, owner, value) ==
    IF value.exc # "none"
    THEN [stack |-> stack, exc |-> value.exc, key |-> NoKey]
    ELSE [stack |-> stack, exc |-> "none", key |-> next_key]

\* the try block once next_key is drawn: next_value = self.mapping[next_key]
\* was found in the node at path owner
next_value(d, stack, next_key, owner, value) ==
    IF value.exc # "none"
    THEN [stack |-> stack, exc |-> value.exc, key |-> NoKey]
    ELSE IF value.val.kind = "nm"
         THEN next_handler(d, __next__(d, Append(stack, Frame(owner \o <<next_key>>))))
         ELSE [stack |-> stack, exc |-> "none", key |-> next_key]

\* next(self.iter_stack[-1]) on the top frame, which runs over node
next_top(d, stack, node, pos) ==
    IF pos >= Len(node)
    THEN \* StopIteration from the dict iterator: the except clause pops the
         \* frame and calls __next__, outside the try block
         __next__(d, Pop(stack))
    ELSE next_value(d, [stack EXCEPT ![Len(stack)].pos = pos + 1], node[pos + 1].k,
                    find_data_(d, node[pos + 1].k).path, __getitem__(d, node[pos + 1].k))

__next__(d, stack) ==
    IF Len(stack) = 0
    THEN [stack |-> stack, exc |-> "StopIteration", key |-> NoKey]
    ELSE next_top(d, stack, NodeAt(d, stack[Len(stack)].path), stack[Len(stack)].pos)

\* `for key in self: self[key]`, from the iterator state stack on.  Returns
\* the exception that ends the loop ("none" when it runs to its end).
RECURSIVE check_loop(_, _)

\* the loop body: self[key] gave g
check_body(d, stack, g) ==
    IF g.exc # "none" THEN g.exc ELSE check_loop(d, stack)

\* one turn of the loop: __next__ gave n
check_turn(d, n) ==
    IF n.exc = "StopIteration" THEN "none"
    ELSE IF n.exc # "none" THEN n.exc
    ELSE check_body(d, n.stack, __getitem__(d, n.key))

check_loop(d, stack) == check_turn(d, __next__(d, stack))

-----------------------------------------------------------------------------
(* Construction *)

\* DictWrapperStub.__init__: data = dict(*args)
stub_init(value) == value

\* the recursive branch of __init__: every dict value becomes
\* NestedMapping(value, recursive=True, check=False)
RECURSIVE wrap(_)
wrap(d) ==
    [i \in DOMAIN d |->
        IF d[i].kind = "dict" THEN Entry(d[i].k, NM(wrap(stub_init(d[i].d)))) ELSE d[i]]

\* NestedMapping.__init__ returns [exc, data]
__init__(value, recursive, check) ==
    LET d0 == stub_init(value)
        d1 == IF recursive THEN wrap(d0) ELSE d0
        exc == IF check THEN check_loop(d1, NewStack) ELSE "none"
    IN [exc |-> exc, data |-> d1]

-----------------------------------------------------------------------------
(* The caller: a document is read into a plain value, the root is built    *)
(* from it, calls are made on the root, and last an iterator is run.  The  *)
(* mapping is not changed while its iterator is open.                       *)

RECURSIVE AllKeys(_)
AllKeys(d) ==
    IF d = <<>> THEN {}
    ELSE {Head(d).k} \cup AllKeys(Head(d).d) \cup AllKeys(Tail(d))

RECURSIVE AllVals(_)
AllVals(d) ==
    IF d = <<>> THEN {}
    ELSE (IF Head(d).kind = "leaf" THEN {Head(d).v} ELSE {})
            \cup AllVals(Head(d).d) \cup AllVals(Tail(d))

\* keys and payloads are named in the order of their first appearance in the
\* document (renaming them changes nothing in the code's behaviour)
FreshKeys(d) ==
    AllKeys(d) \cup {KeyOrder[i] : i \in {j \in DOMAIN KeyOrder : j = Cardinality(AllKeys(d)) + 1}}
FreshVals(d) == {v \in Vals : v <= Cardinality(AllVals(d)) + 1}

Call(op, key, val, exc) ==
    [op |-> op, key |-> key, val |-> val, exc |-> exc, ret |-> NoValue, n |-> 0, out |-> <<>>]

\* what a caller stores through set: a scalar, an empty NestedMapping, a
\* NestedMapping with one leaf (under the last key)
SetVals ==
    {Leaf(v) : v \in Vals} \cup {NM(<<>>), NM(<<Entry(KeyOrder[Len(KeyOrder)], Leaf(1))>>)}

Init ==
    /\ pc = "load"
    /\ inp = <<>>
    /\ cursor = <<>>
    /\ flags = [recursive |-> TRUE, check |-> TRUE]
    /\ data = <<>>
    /\ it = "none"
    /\ iter_stack = <<>>
    /\ produced = <<>>
    /\ last = Call("none", NoKey, NoValue, "none")
    /\ prev = <<>>
    /\ nops = 0

\* the loader reads a scalar entry into the dict it is in
LoadLeaf(k, v) ==
    /\ pc = "load"
    /\ TotalEntries(inp) < MaxEntries
    /\ k \in FreshKeys(inp) \ KeysOf(NodeAt(inp, cursor))
    /\ v \in FreshVals(inp)
    /\ inp' = WithNodeAt(inp, cursor, Append(NodeAt(inp, cursor), Entry(k, Leaf(v))))
    /\ UNCHANGED <<pc, cursor, flags, data, it, iter_stack, produced, last, prev, nops>>

\* the loader reads the start of a nested dict and enters it
LoadOpen(k) ==
    /\ pc = "load"
    /\ TotalEntries(inp) < MaxEntries
    /\ Len(cursor) < MaxDepth
    /\ k \in FreshKeys(inp) \ KeysOf(NodeAt(inp, cursor))
    /\ inp' = WithNodeAt(inp, cursor, Append(NodeAt(inp, cursor), Entry(k, Dict(<<>>))))
    /\ cursor' = Append(cursor, k)
    /\ UNCHANGED <<pc, flags, data, it, iter_stack, produced, last, prev, nops>>

\* the loader reads the end of the nested dict it is in
LoadClose ==
    /\ pc = "load"
    /\ Len(cursor) > 0
    /\ cursor' = SubSeq(cursor, 1, Len(cursor) - 1)
    /\ UNCHANGED <<pc, inp, flags, data, it, iter_stack, produced, last, prev, nops>>

\* NestedMapping(inp, recursive=recursive, check=check)
Construct(recursive, check) ==
    /\ pc = "load"
    /\ cursor = <<>>
    /\ LET r == __init__(inp, recursive, check)
       IN /\ pc' = IF r.exc = "none" THEN "built" ELSE "failed"
          /\ data' = IF r.exc = "none" THEN r.data ELSE <<>>
          /\ last' = Call("init", NoKey, NoValue, r.exc)
    /\ flags' = [recursive |-> recursive, check |-> check]
    /\ prev' = <<>>
    /\ UNCHANGED <<inp, cursor, it, iter_stack, produced, nops>>

\* root[k]
Get(k) ==
    /\ pc = "built" /\ it = "none"
    /\ LET r == __getitem__(data, k)
       IN last' = [Call("get", k, NoValue, r.exc) EXCEPT !.ret = r.val]
    /\ prev' = data
    /\ UNCHANGED <<pc, inp, cursor, flags, data, it, iter_stack, produced, nops>>

\* root[k] = v
Set(k, v) ==
    /\ pc = "built" /\ it = "none"
    /\ nops < MaxOps
    /\ LET r == __setitem__(data, k, v)
       IN /\ data' = r.data
          /\ last' = Call("set", k, v, r.exc)
    /\ prev' = data
    /\ nops' = nops + 1
    /\ UNCHANGED <<pc, inp, cursor, flags, it, iter_stack, produced>>

\* del root[k]
Del(k) ==
    /\ pc = "built" /\ it = "none"
    /\ nops < MaxOps
    /\ LET r == __delitem__(data, k)
       IN /\ data' = r.data
          /\ last' = Call("del", k, NoValue, r.exc)
    /\ prev' = data
    /\ nops' = nops + 1
    /\ UNCHANGED <<pc, inp, cursor, flags, it, iter_stack, produced>>

\* len(root)
Size ==
    /\ pc = "built" /\ it = "none"
    /\ last' = [Call("len", NoKey, NoValue, "none") EXCEPT !.n = __len__(data)]
    /\ prev' = data
    /\ UNCHANGED <<pc, inp, cursor, flags, data, it, iter_stack, produced, nops>>

\* root.to_dict()
ToDict ==
    /\ pc = "built" /\ it = "none"
    /\ last' = [Call("to_dict", NoKey, NoValue, "none") EXCEPT !.out = to_dict(data)]
    /\ prev' = data
    /\ UNCHANGED <<pc, inp, cursor, flags, data, it, iter_stack, produced, nops>>

\* iter(root)
Iter ==
    /\ pc = "built" /\ it = "none"
    /\ it' = "open"
    /\ iter_stack' = NewStack
    /\ produced' = <<>>
    /\ last' = Call("iter", NoKey, NoValue, "none")
    /\ prev' = data
    /\ UNCHANGED <<pc, inp, cursor, flags, data, nops>>

\* next(iterator)
Next_ ==
    /\ pc = "built" /\ it = "open"
    /\ LET r == __next__(data, iter_stack)
       IN /\ iter_stack' = r.stack
          /\ produced' = IF r.exc = "none" THEN Append(produced, r.key) ELSE produced
          /\ last' = Call("next", r.key, NoValue, r.exc)
    /\ prev' = data
    /\ UNCHANGED <<pc, inp, cursor, flags, data, it, nops>>

Next ==
    \/ \E k \in Keys, v \in Vals : LoadLeaf(k, v)
    \/ \E k \in Keys : LoadOpen(k)
    \/ LoadClose
    \/ \E recursive \in BOOLEAN, check \in BOOLEAN : Construct(recursive, check)
    \/ \E k \in Keys : Get(k)
    \/ \E k \in Keys, v \in SetVals : Set(k, v)
    \/ \E k \in Keys : Del(k)
    \/ Size
    \/ ToDict
    \/ Iter
    \/ Next_

Spec == Init /\ [][Next]_vars

-----------------------------------------------------------------------------
(* Vocabulary of the properties, defined on the tree itself *)

\* the paths of the nodes that have key among their own entries
RECURSIVE Owners(_, _)
Owners(d, key) ==
    (IF key \in KeysOf(d) THEN {<<>>} ELSE {})
        \cup UNION { {<<d[i].k>> \o p : p \in Owners(d[i].d, key)} :
                        i \in {j \in DOMAIN d : d[j].kind = "nm"} }

\* I1: no key is an entry of more than one node
I1(d) == \A k \in Keys : Cardinality(Owners(d, k)) <= 1

\* every entry of every node, as <<path of its node, key, kind, payload>>
RECURSIVE Entries(_)
Entries(d) ==
    {<<<<>>, d[i].k, d[i].kind, d[i].v>> : i \in DOMAIN d}
        \cup UNION { {<<<<d[i].k>> \o e[1], e[2], e[3], e[4]>> : e \in Entries(d[i].d)} :
                        i \in {j \in DOMAIN d : d[j].kind = "nm"} }

LeafEntries(d) == {e \in Entries(d) : e[3] # "nm"}
LeafKeys(d) == {e[2] : e \in LeafEntries(d)}

\* the entry is the one under key in the node at path, or lies below it
AtOrBelow(e, path, key) ==
    \/ e[1] = path /\ e[2] = key
    \/ /\ Len(e[1]) > Len(path)
       /\ SubSeq(e[1], 1, Len(path) + 1) = path \o <<key>>

TheOwner(d, key) == CHOOSE p \in Owners(d, key) : TRUE

\* the plain dicts of a hierarchical value that have key among their keys
RECURSIVE Places(_, _)
Places(d, key) ==
    (IF key \in KeysOf(d) THEN {<<>>} ELSE {})
        \cup UNION { {<<d[i].k>> \o p : p \in Places(d[i].d, key)} :
                        i \in {j \in DOMAIN d : d[j].kind = "dict"} }

-----------------------------------------------------------------------------
(* Properties *)

\* C1 (flat access): on a tree in which no key is an entry of more than one
\* node, get(k) on the root returns the value stored under k in the node
\* that has k, at whatever depth that node is, and fails with KeyError when
\* no node has k.
C1_FlatAccess ==
    (pc = "built" /\ last.op = "get" /\ I1(data)) =>
        IF Owners(data, last.key) = {}
        THEN last.exc = "KeyError"
        ELSE /\ last.exc = "none"
             /\ last.ret = Lookup(NodeAt(data, TheOwner(data, last.key)), last.key)

\* a get that found its key in a node two levels below the root
C1_Witness ==
    /\ pc = "built" /\ last.op = "get" /\ I1(data) /\ flags.recursive
    /\ Owners(data, last.key) # {}
    /\ Len(TheOwner(data, last.key)) = 2
    /\ last.exc = "none"
    /\ last.ret.kind = "leaf"

\* C2 (uniqueness enforcement): when a key is an entry of two or more nodes
\* of the tree as it was constructed, get and delete of that key fail with
\* MultipleKeyError, and so does the construction when check is enabled.
C2_DuplicateRejected ==
    /\ (pc = "built" /\ last.op \in {"get", "del"}
            /\ flags.recursive /\ prev = wrap(inp)
            /\ Cardinality(Owners(prev, last.key)) >= 2)
          => last.exc = "MultipleKeyError"
    /\ (last.op = "init" /\ flags.recursive /\ flags.check
            /\ \E k \in LeafKeys(wrap(inp)) : Cardinality(Owners(wrap(inp), k)) >= 2)
          => last.exc = "MultipleKeyError"

\* C3: set of a key that is an entry of more than one node fails with
\* MultipleKeyError and leaves the whole tree as it was.
C3_AmbiguousSetRejected ==
    (pc = "built" /\ last.op = "set" /\ Cardinality(Owners(prev, last.key)) >= 2) =>
        /\ last.exc = "MultipleKeyError"
        /\ data = prev

\* the placement half of C4: the new key and its value become the last
\* entry of the root, and nothing else changes
NewKeyPlaced ==
    /\ last.exc = "none"
    /\ data = Append(prev, Entry(last.key, last.val))

\* the retrieval half of C4 and C5: get(key) on the tree as it is now
\* returns the value that was set
GetReturnsSetValue ==
    __getitem__(data, last.key) = [exc |-> "none", val |-> last.val]

\* the value set is a NestedMapping that has the key it is set under among
\* the entries of its own nodes
ValueHoldsKey == last.val.kind = "nm" /\ Owners(last.val.d, last.key) # {}

\* C4 as stated (new-key placement): set(key, v) of a key that no node has
\* puts key: v into the root's own entries, changes nothing else, and
\* get(key) afterwards returns v.
C4_NewKeyPlacement_Original ==
    (pc = "built" /\ last.op = "set" /\ Owners(prev, last.key) = {}) =>
        NewKeyPlaced /\ GetReturnsSetValue

\* C4 as amended: set(key, v) of a key that no node has puts key: v into the
\* root's own entries and changes nothing else; get(key) afterwards returns
\* v unless v is a NestedMapping that has key among its own entries.
C4_NewKeyPlacement ==
    (pc = "built" /\ last.op = "set" /\ Owners(prev, last.key) = {}) =>
        /\ NewKeyPlaced
        /\ ~ValueHoldsKey => GetReturnsSetValue

\* a set of a new key on a tree that has branches, read back by get
C4_Witness ==
    /\ pc = "built" /\ last.op = "set" /\ Owners(prev, last.key) = {}
    /\ get_children(prev) # <<>>
    /\ last.key \in KeysOf(data)
    /\ ~ValueHoldsKey
    /\ GetReturnsSetValue

\* the edit half of C5: the owner now holds the value under the key, the
\* root has not got the key, and every entry that is not the edited one (or
\* below it) is as it was
EditedInPlace ==
    LET p == TheOwner(prev, last.key)
    IN /\ last.exc = "none"
       /\ last.key \in KeysOf(NodeAt(data, p))
       /\ Lookup(NodeAt(data, p), last.key) = last.val
       /\ last.key \notin KeysOf(data)
       /\ {e \in Entries(data) : ~AtOrBelow(e, p, last.key)}
             = {e \in Entries(prev) : ~AtOrBelow(e, p, last.key)}
       /\ [i \in DOMAIN NodeAt(data, p) |-> NodeAt(data, p)[i].k]
             = [i \in DOMAIN NodeAt(prev, p) |-> NodeAt(prev, p)[i].k]

\* C5 as stated (edit in place): set(k, v) of a key whose one owner is below
\* the root replaces the value in that owner, adds nothing to the root,
\* leaves every other entry alone, and get(k) afterwards returns v.
C5_EditInPlace_Original ==
    (pc = "built" /\ last.op = "set" /\ Cardinality(Owners(prev, last.key)) = 1
        /\ Len(TheOwner(prev, last.key)) > 0) =>
        EditedInPlace /\ GetReturnsSetValue

\* C5 as amended: as stated, but get(k) afterwards returns v unless v is a
\* NestedMapping that has k among its own entries.
C5_EditInPlace ==
    (pc = "built" /\ last.op = "set" /\ Cardinality(Owners(prev, last.key)) = 1
        /\ Len(TheOwner(prev, last.key)) > 0) =>
        /\ EditedInPlace
        /\ ~ValueHoldsKey => GetReturnsSetValue

\* a set that changed a leaf two levels below the root
C5_Witness ==
    /\ pc = "built" /\ last.op = "set" /\ Cardinality(Owners(prev, last.key)) = 1
    /\ Len(TheOwner(prev, last.key)) = 2
    /\ last.val.kind = "leaf"
    /\ data # prev
    /\ GetReturnsSetValue

\* C6 (flat count): len of the root is the number of leaf entries of all
\* the nodes of the tree; no branch key is counted.
C6_FlatCount ==
    (pc = "built" /\ last.op = "len") => last.n = Cardinality(LeafEntries(data))

\* a len of a tree with an empty branch, a branch in a branch, and leaves
C6_Witness ==
    /\ pc = "built" /\ last.op = "len" /\ last.n >= 1
    /\ \E e \in Entries(data) : e[3] = "nm" /\ NodeAt(data, e[1] \o <<e[2]>>) = <<>>
    /\ \E e \in Entries(data) : e[3] = "nm" /\ Len(e[1]) = 1

\* C7 (iteration completeness): on a tree that satisfies I1, an iterator run
\* until its stack is empty has returned every leaf key once and no branch
\* key, and as many keys as len counts.
C7_IterationComplete ==
    (pc = "built" /\ it = "open" /\ iter_stack = <<>> /\ I1(data)) =>
        /\ \A i, j \in DOMAIN produced : i # j => produced[i] # produced[j]
        /\ {produced[i] : i \in DOMAIN produced} = LeafKeys(data)
        /\ Len(produced) = __len__(data)

\* an iterator run to its end over leaves at two depths and a branch
C7_Witness ==
    /\ pc = "built" /\ it = "open" /\ iter_stack = <<>> /\ I1(data)
    /\ Len(produced) >= 2
    /\ \E e \in LeafEntries(data) : Len(e[1]) = 2
    /\ \E e \in LeafEntries(data) : Len(e[1]) = 0

\* C8 (round trip): for an input with no key in more than one place,
\* construction with recursive=True and check=True succeeds, and to_dict of
\* the result equals the input.
C8_RoundTrip ==
    (last.op = "init" /\ flags.recursive /\ flags.check
        /\ \A k \in Keys : Cardinality(Places(inp, k)) <= 1) =>
        /\ last.exc = "none"
        /\ DictEq(to_dict(data), inp)

\* C9 (exhaustion): on a tree that satisfies I1, a next() call returns a key
\* or raises StopIteration, never another error, and once the stack is empty
\* every call raises StopIteration.
C9_ExhaustionProtocol ==
    (pc = "built" /\ it = "open" /\ last.op = "next" /\ I1(data)) =>
        /\ last.exc \in {"none", "StopIteration"}
        /\ iter_stack = <<>> => last.exc = "StopIteration"

\* C10 as stated (deferred violation): a set of a leaf value, on a tree that
\* satisfies I1, of a key that a node below the root has, puts the key into
\* the root's entries beside the deeper one.
C10_SetShadowsDeeperKey ==
    (pc = "built" /\ last.op = "set" /\ last.val.kind = "leaf" /\ I1(prev)
        /\ Owners(prev, last.key) # {} /\ last.key \notin KeysOf(prev)) =>
        /\ last.key \in KeysOf(data)
        /\ ~I1(data)

\* C10 as amended: a set of a leaf value on a tree that satisfies I1 leaves
\* a tree that satisfies I1; when a node below the root has the key, the
\* root does not get it.
C10_LeafSetKeepsI1 ==
    (pc = "built" /\ last.op = "set" /\ last.val.kind = "leaf" /\ I1(prev)) =>
        /\ I1(data)
        /\ (Owners(prev, last.key) # {} /\ last.key \notin KeysOf(prev))
              => last.key \notin KeysOf(data)

\* a set of a leaf value of a key that only a node below the root has
C10_Witness ==
    /\ pc = "built" /\ last.op = "set" /\ last.val.kind = "leaf" /\ I1(prev)
    /\ Owners(prev, last.key) # {} /\ last.key \notin KeysOf(prev)
    /\ last.exc = "none"
    /\ data # prev

====
